---- MODULE Spec2Model ----
(***************************************************************************)
(* Model of the clippy lint pass UnusedSelf                                *)
(* (src/tools/clippy/clippy_lints/src/unused_self.rs).                     *)
(*                                                                         *)
(* The lint pass is an object with one field, avoid_breaking_exported_api, *)
(* and one handler, check_impl_item, which the driver calls once per impl  *)
(* item.  The handler reads facts of the item out of the lint context and  *)
(* emits at most one diagnostic to the diagnostic sink.                    *)
(***************************************************************************)
EXTENDS Integers, Sequences, FiniteSets, TLC

\* Nesting depth of the expression trees of the bodies that are enumerated.
MaxDepth == 1
\* Number of diagnostics the sink holds before the driver stops.
MaxDiagnostics == 2

-----------------------------------------------------------------------------
(* The HIR the handler reads.                                              *)

\* Option<T>, as a sequence of length at most one.
None == <<>>
Some(x) == <<x>>

\* HirIds of the nodes of one method: the first parameter, its pattern (the
\* binding the paths of the body resolve to), and a second binding inside the
\* body that is not the first parameter's.
HirParam0 == "hir_param0"
HirPat0 == "hir_pat0"
HirInner == "hir_inner"

\* A span: the node it covers and whether it comes from a macro expansion.
Span(node, expn) == [node |-> node, from_expansion |-> expn]

\* Expression nodes.  Every node has a kind, the local a Path resolves to,
\* the surface name of a Path, and its sub-expressions in source order.
Lit == [tag |-> "Lit", res |-> "none", name |-> "", sub |-> <<>>]
Path(res, name) == [tag |-> "Path", res |-> res, name |-> name, sub |-> <<>>]
Closure(body) == [tag |-> "Closure", res |-> "none", name |-> "", sub |-> <<body>>]
Block(e1, e2) == [tag |-> "Block", res |-> "none", name |-> "", sub |-> <<e1, e2>>]

\* The leaves a body of the first parameter named n can contain: a literal,
\* a path to the first parameter, and a path to the inner binding, which
\* carries the same surface name as the first parameter.
Leaves(n) == {Lit, Path(HirPat0, n), Path(HirInner, n)}

RECURSIVE Exprs(_, _)
Exprs(n, d) ==
    IF d = 0 THEN Leaves(n)
    ELSE LET E == Exprs(n, d - 1)
         IN  E \cup {Closure(e) : e \in E}
               \cup {Block(l, e) : l \in Leaves(n), e \in E}

\* Every local a path of the tree e resolves to, at any depth.
RECURSIVE RefIds(_)
RefIds(e) ==
    (IF e.tag = "Path" THEN {e.res} ELSE {})
      \cup UNION {RefIds(e.sub[i]) : i \in 1..Len(e.sub)}

\* Every surface name a path of the tree e carries, at any depth.
RECURSIVE RefNames(_)
RefNames(e) ==
    (IF e.tag = "Path" THEN {e.name} ELSE {})
      \cup UNION {RefNames(e.sub[i]) : i \in 1..Len(e.sub)}

\* A parameter of a body: the Param node, its pattern and its span.
Param(n, expn) ==
    [hir_id |-> HirParam0,
     pat    |-> [hir_id |-> HirPat0, name |-> n],
     span   |-> Span("param0", expn)]

\* hir::Body: the parameters and the value expression.
Body(params, value, expn) ==
    [params |-> params, value |-> value, span |-> Span("body", expn)]

\* The bodies of associated functions.  With a receiver the first parameter
\* is self and the value is any tree up to MaxDepth.  Without one there is a
\* first parameter x or no parameter (and then no path resolves to a first
\* parameter), and the value is a leaf: the pass never looks at these bodies.
FnBodies(has_self, expn) ==
    IF has_self
    THEN {Body(<<Param("self", expn)>>, v, expn) : v \in Exprs("self", MaxDepth)}
    ELSE {Body(<<Param("x", expn)>>, v, expn) : v \in Leaves("x")}
           \cup {Body(<<>>, v, expn) :
                    v \in {w \in Leaves("x") : HirPat0 \notin RefIds(w)}}

\* hir::ImplItem: its span, its DefId and its kind.  A function and a
\* constant have a body, a type alias has none.
ImplItem(tag, body_id, expn) ==
    [span   |-> Span("item", expn),
     def_id |-> "impl_item",
     kind   |-> [tag |-> tag, body_id |-> body_id]]

ImplItems(has_self, expn) ==
    {ImplItem("Fn", Some(b), expn) : b \in FnBodies(has_self, expn)}
      \cup (IF has_self THEN {}
            ELSE {ImplItem("Const", Some(Body(<<>>, Lit, expn)), expn),
                  ImplItem("Type", None, expn)})

\* LateContext: what the compiler answers about the item: the impl block it
\* is in (the parent of an impl item is always an impl block), its associated
\* item and the set of exported DefIds.
LateContext(of_trait, has_self, exported) ==
    [parent_item |-> [kind |-> [tag |-> "Impl", of_trait |-> of_trait]],
     associated_item |-> [fn_has_self_parameter |-> has_self],
     effective_visibilities |-> IF exported THEN {"impl_item"} ELSE {}]

\* The calls the driver can make: a lint context and an impl item.
Inputs ==
    UNION { {[cx |-> LateContext(tr, hs, ex), impl_item |-> it] :
                it \in ImplItems(hs, expn)} :
            tr \in {None, Some("Trait")}, hs \in BOOLEAN,
            ex \in BOOLEAN, expn \in BOOLEAN }

-----------------------------------------------------------------------------
(* The collaborators of the pass.                                          *)

\* Span::from_expansion
from_expansion(span) == span.from_expansion

\* EffectiveVisibilities::is_exported
is_exported(cx, def_id) == def_id \in cx.effective_visibilities

\* clippy_utils::path_to_local_id: e is a path that resolves to the local id.
path_to_local_id(e, id) == e.tag = "Path" /\ e.res = id

\* clippy_utils::visitors::is_local_used: walks the expressions of the body
\* in source order, closures included, and stops at the first path that
\* resolves to the local id.
RECURSIVE for_each_expr(_, _)
for_each_expr(e, id) ==
    IF path_to_local_id(e, id) THEN TRUE
    ELSE \E i \in 1..Len(e.sub) : for_each_expr(e.sub[i], id)

is_local_used(cx, body, id) == for_each_expr(body.value, id)

\* clippy_utils::diagnostics::span_lint_and_help: one diagnostic of the lint
\* at the span with a message and a help note; no suggestion is attached.
span_lint_and_help(cx, lint, span, msg, help_span, help) ==
    [lint |-> lint, span |-> span, msg |-> msg,
     help_span |-> help_span, help |-> help, suggestion |-> None]

-----------------------------------------------------------------------------
(* The lint and the pass.                                                  *)

\* declare_clippy_lint! UNUSED_SELF.  In the strings of the lint the source's
\* backquotes around self are written as single quotes.
UNUSED_SELF ==
    [name  |-> "UNUSED_SELF",
     group |-> "pedantic",
     desc  |-> "methods that contain a 'self' argument but don't use it"]

\* UnusedSelf::new
new(avoid_breaking_exported_api) ==
    [avoid_breaking_exported_api |-> avoid_breaking_exported_api]

is_any_impl(parent_item) == parent_item.kind.tag = "Impl"

\* The enclosing item is an impl block that implements no trait.
is_inherent_impl(parent_item) ==
    parent_item.kind.tag = "Impl" /\ parent_item.kind.of_trait = None

may_lint_exported_both(self, cx, impl_item) ==
    ~is_exported(cx, impl_item.def_id) /\ ~self.avoid_breaking_exported_api

\* The export test: the item is not exported or the flag is off.
may_lint_exported(self, cx, impl_item) ==
    ~is_exported(cx, impl_item.def_id) \/ ~self.avoid_breaking_exported_api

self_param_used(cx, body) ==
    is_local_used(cx, body, body.params[1].pat.hir_id)

self_param_by_param_id(cx, body) ==
    ~is_local_used(cx, body, body.params[1].hir_id)

self_param_by_name(cx, body) ==
    body.params[1].pat.name \notin RefNames(body.value)

\* The first parameter's binding is used nowhere in the body.
self_param_unused(cx, body) ==
    ~is_local_used(cx, body, body.params[1].pat.hir_id)

lint_span_of_item(impl_item, body) == impl_item.span

\* The span the diagnostic is anchored at: the first parameter's.
lint_span(impl_item, body) == body.params[1].span

emit_named(cx, span) ==
    span_lint_and_help(cx, UNUSED_SELF, span,
                       "unused receiver parameter", None,
                       "consider refactoring to a associated function")

\* The diagnostic of the lint.
emit(cx, span) ==
    span_lint_and_help(cx, UNUSED_SELF, span,
                       "unused 'self' argument", None,
                       "consider refactoring to a associated function")

self_after_caching(self, cx, impl_item) ==
    IF is_exported(cx, impl_item.def_id)
    THEN [self EXCEPT !.avoid_breaking_exported_api = TRUE]
    ELSE self

\* The pass after a call: check_impl_item takes it mutably and assigns
\* nothing.
self_after(self, cx, impl_item) == self

\* What a call that stops after the queries q returns: no diagnostic.
Quiet(self, cx, impl_item, q) ==
    [self |-> self_after(self, cx, impl_item), emitted |-> <<>>, consulted |-> q]

\* The chain of tests after the provenance test and the three lookups.
if_chain(self, cx, impl_item, parent_item, assoc_item, q) ==
    IF ~is_inherent_impl(parent_item) THEN Quiet(self, cx, impl_item, q)
    ELSE IF ~assoc_item.fn_has_self_parameter THEN Quiet(self, cx, impl_item, q)
    ELSE IF impl_item.kind.tag # "Fn" THEN Quiet(self, cx, impl_item, q)
    ELSE LET q1 == Append(q, "is_exported") IN
    IF ~may_lint_exported(self, cx, impl_item) THEN Quiet(self, cx, impl_item, q1)
    ELSE LET body == impl_item.kind.body_id[1]
             q2 == Append(q1, "body") IN
    IF body.params = <<>> THEN Quiet(self, cx, impl_item, q2)
    ELSE LET q3 == Append(q2, "is_local_used") IN
    IF ~self_param_unused(cx, body) THEN Quiet(self, cx, impl_item, q3)
    ELSE [self |-> self_after(self, cx, impl_item),
          emitted |-> <<emit(cx, lint_span(impl_item, body))>>,
          consulted |-> Append(q3, "span_lint_and_help")]

check_impl_item_late_provenance(self, cx, impl_item) ==
    LET q == <<"get_parent_item", "expect_item", "associated_item",
               "from_expansion">>
    IN  IF from_expansion(impl_item.span) THEN Quiet(self, cx, impl_item, q)
        ELSE if_chain(self, cx, impl_item, cx.parent_item,
                      cx.associated_item, q)

\* UnusedSelf::check_impl_item: the pass after the call, the diagnostics the
\* call emits and the queries it makes, in order.
check_impl_item(self, cx, impl_item) ==
    IF from_expansion(impl_item.span)
    THEN Quiet(self, cx, impl_item, <<"from_expansion">>)
    ELSE if_chain(self, cx, impl_item, cx.parent_item, cx.associated_item,
                  <<"from_expansion", "get_parent_item", "expect_item",
                    "associated_item">>)

-----------------------------------------------------------------------------
(* The state machine: the driver constructs the pass and calls it on impl  *)
(* items in any order, any item any number of times.                       *)

VARIABLES
    unused_self,    \* the pass: its field avoid_breaking_exported_api
    diagnostics,    \* the diagnostic sink: what was emitted, in order
    conf,           \* the flag UnusedSelf::new was given
    last            \* the latest call: its arguments and what it did

vars == <<unused_self, diagnostics, conf, last>>

Init ==
    /\ conf \in BOOLEAN
    /\ unused_self = new(conf)
    /\ diagnostics = <<>>
    /\ last = None

CheckImplItem(inp) ==
    /\ Len(diagnostics) < MaxDiagnostics
    /\ LET r == check_impl_item(unused_self, inp.cx, inp.impl_item)
       IN  /\ unused_self' = r.self
           /\ diagnostics' = diagnostics \o r.emitted
           /\ last' = Some([cx |-> inp.cx,
                            impl_item |-> inp.impl_item,
                            flag |-> unused_self.avoid_breaking_exported_api,
                            emitted |-> r.emitted,
                            consulted |-> r.consulted,
                            repeat |-> /\ last # None
                                       /\ last[1].cx = inp.cx
                                       /\ last[1].impl_item = inp.impl_item,
                            prev_emitted |-> IF last = None THEN <<>>
                                             ELSE last[1].emitted])
    /\ UNCHANGED conf

Next == \E inp \in Inputs : CheckImplItem(inp)

Spec == Init /\ [][Next]_vars

-----------------------------------------------------------------------------
(* The facts of the latest call, stated flatly from the item and the       *)
(* context, and the properties of the pass.                                *)

Called == last # None
Call == last[1]

FromExpansion == Call.impl_item.span.from_expansion
InTraitImpl == Call.cx.parent_item.kind.of_trait # None
HasReceiver == Call.cx.associated_item.fn_has_self_parameter
IsFnWithBody ==
    Call.impl_item.kind.tag = "Fn" /\ Call.impl_item.kind.body_id # None
Exported == Call.impl_item.def_id \in Call.cx.effective_visibilities
Excluded == Exported /\ Call.flag
CallBody == Call.impl_item.kind.body_id[1]
Receiver == CallBody.params[1]
ReceiverUsed ==
    /\ Call.impl_item.kind.body_id # None
    /\ CallBody.params # <<>>
    /\ Receiver.pat.hir_id \in RefIds(CallBody.value)
\* Everything but the export test and the flag qualifies the method.
OtherwiseQualifies ==
    /\ ~FromExpansion
    /\ ~InTraitImpl
    /\ HasReceiver
    /\ IsFnWithBody
    /\ ~ReceiverUsed
Qualifies == OtherwiseQualifies /\ ~Excluded

\* C1: a call emits a diagnostic if and only if the item's span is not from
\* a macro expansion, the enclosing impl block implements no trait, the item
\* has a receiver, it is a function with a body, it is not both exported and
\* checked with the flag on, and the receiver is used nowhere in the body.
C1_DiagnosticIffQualifies ==
    Called => ((Call.emitted # <<>>) <=> Qualifies)

C1_Witness ==
    /\ Called
    /\ Call.emitted # <<>>
    /\ Exported
    /\ ~Call.flag

\* C2: a method of an impl block that implements a trait gets no diagnostic,
\* whatever its other facts.
C2_TraitImplNeverLinted ==
    (Called /\ InTraitImpl) => Call.emitted = <<>>

C2_Witness ==
    /\ Called
    /\ InTraitImpl
    /\ ~FromExpansion /\ HasReceiver /\ IsFnWithBody
    /\ ~Exported /\ ~Call.flag /\ ~ReceiverUsed
    /\ Call.emitted = <<>>

\* C3: for a method that otherwise qualifies, with the receiver unused, an
\* exported method gets no diagnostic with the flag on and one with the
\* flag off, and a method that is not exported gets one for both values of
\* the flag.
C3_ExcludedIffExportedAndFlag ==
    (Called /\ OtherwiseQualifies) =>
        Len(Call.emitted) = (IF Exported /\ Call.flag THEN 0 ELSE 1)

C3_Witness ==
    /\ Called
    /\ OtherwiseQualifies
    /\ Exported
    /\ Call.flag
    /\ Call.emitted = <<>>

\* C4: the provenance test is the first thing a call does, and for an item
\* from a macro expansion it is the only thing: no diagnostic, and neither
\* the parent impl block, the associated item, the export fact nor the body
\* is consulted.
C4_ProvenanceFirst ==
    Called =>
        /\ Call.consulted[1] = "from_expansion"
        /\ FromExpansion =>
              /\ Call.emitted = <<>>
              /\ Call.consulted = <<"from_expansion">>

C4_Witness ==
    /\ Called
    /\ FromExpansion
    /\ ~InTraitImpl /\ HasReceiver /\ IsFnWithBody
    /\ ~Exported /\ ~ReceiverUsed
    /\ Call.emitted = <<>>

\* C5: when a path of the body resolves to the receiver's binding, at any
\* depth and also inside a closure, is_local_used answers true and the call
\* emits nothing; it answers false only when no path of the whole body
\* resolves to the receiver's binding.
C5_ReferencedReceiverIsUsed ==
    (Called /\ HasReceiver /\ IsFnWithBody) =>
        /\ is_local_used(Call.cx, CallBody, Receiver.pat.hir_id)
              <=> Receiver.pat.hir_id \in RefIds(CallBody.value)
        /\ ReceiverUsed => Call.emitted = <<>>

C5_Witness ==
    /\ Called
    /\ ~FromExpansion /\ ~InTraitImpl /\ HasReceiver /\ IsFnWithBody
    /\ ~Excluded
    /\ CallBody.value.tag = "Closure"
    /\ ReceiverUsed
    /\ Call.consulted[Len(Call.consulted)] = "is_local_used"
    /\ Call.emitted = <<>>

\* The body refers to a binding that has the receiver's name and another
\* identity, and never to the receiver's own binding.
ShadowedOnly ==
    /\ HasReceiver /\ IsFnWithBody
    /\ \E id \in RefIds(CallBody.value) : id # Receiver.pat.hir_id
    /\ Receiver.pat.name \in RefNames(CallBody.value)
    /\ Receiver.pat.hir_id \notin RefIds(CallBody.value)

\* C6: usage goes by the identity of the binding, never by its name: when
\* the body only refers to another binding of the receiver's name,
\* is_local_used answers false for the receiver, and a method that otherwise
\* qualifies gets its diagnostic.
C6_IdentityNotName ==
    (Called /\ ShadowedOnly) =>
        /\ ~is_local_used(Call.cx, CallBody, Receiver.pat.hir_id)
        /\ (~FromExpansion /\ ~InTraitImpl /\ ~Excluded)
              => Len(Call.emitted) = 1

C6_Witness ==
    /\ Called
    /\ ShadowedOnly
    /\ ~FromExpansion /\ ~InTraitImpl /\ ~Excluded
    /\ Len(Call.emitted) = 1

\* C7: a call emits at most one diagnostic, exactly one when the method
\* qualifies, and the diagnostic is anchored at the span of the first
\* parameter of the body, not at the item's span nor at the body's.
C7_OneDiagnosticAtReceiver ==
    Called =>
        /\ Len(Call.emitted) <= 1
        /\ Qualifies =>
              /\ Len(Call.emitted) = 1
              /\ Call.emitted[1].span = CallBody.params[1].span
              /\ Call.emitted[1].span # Call.impl_item.span
              /\ Call.emitted[1].span # CallBody.span

C7_Witness ==
    /\ Called
    /\ Qualifies
    /\ Len(Call.emitted) = 1
    /\ Call.emitted[1].span.node = "param0"

\* The diagnostics in the sink and of the latest call.
Emitted ==
    {diagnostics[i] : i \in 1..Len(diagnostics)}
      \cup (IF Called THEN {Call.emitted[i] : i \in 1..Len(Call.emitted)}
            ELSE {})

\* C8 as stated: every diagnostic carries the message "unused receiver
\* parameter".
C8_MessageAsStated ==
    \A d \in Emitted : d.msg = "unused receiver parameter"

\* C8, amended: every diagnostic is of the lint UNUSED_SELF of the pedantic
\* group, carries the message "unused 'self' argument" (self in backquotes
\* in the source) and the help note "consider refactoring to a associated
\* function" without a help span, and has no suggestion attached; none of
\* this varies with the method.
C8_FixedDiagnostic ==
    \A d \in Emitted :
        /\ d.lint = UNUSED_SELF
        /\ d.lint.group = "pedantic"
        /\ d.msg = "unused 'self' argument"
        /\ d.help = "consider refactoring to a associated function"
        /\ d.help_span = None
        /\ d.suggestion = None

C8_Witness ==
    /\ Len(diagnostics) = MaxDiagnostics
    /\ \A i \in 1..Len(diagnostics) :
          diagnostics[i].msg = "unused 'self' argument"

\* C9: a call on the same item with the same context as the call before it
\* emits what the call before it emitted.
C9_SameOutcomeTwice ==
    (Called /\ Call.repeat) => Call.emitted = Call.prev_emitted

C9_Witness ==
    /\ Called
    /\ Call.repeat
    /\ Exported
    /\ Len(Call.emitted) = 1
    /\ Len(Call.prev_emitted) = 1

\* C10: the pass keeps the flag UnusedSelf::new was given over every call,
\* and whatever was checked before, a call emits what a pass fresh from new
\* emits for that item alone.
C10_NoStateBetweenChecks ==
    /\ unused_self = new(conf)
    /\ Called =>
          Call.emitted = check_impl_item(new(conf), Call.cx, Call.impl_item).emitted

C10_Witness ==
    /\ Called
    /\ ~Call.repeat
    /\ Len(diagnostics) = 1
    /\ Len(Call.prev_emitted) = 1
    /\ Call.emitted = <<>>
    /\ OtherwiseQualifies
    /\ Exported

====
